---------------------------- MODULE Spec2Model ----------------------------
(***************************************************************************)
(* Model of the quiz-generation backend: the retrying generation client    *)
(* (backend/claude_service.py), the offline fallback generator and the     *)
(* /api/quiz/generate handler (backend/main.py).                           *)
(*                                                                         *)
(* Strings the code concatenates or inspects (student ids, topics, quiz    *)
(* ids) are sequences of tokens: a token is a maximal run of letters and   *)
(* digits, or one separator character ("-", "_", " ").  Concatenation is   *)
(* \o and a suffix test compares the trailing tokens.                      *)
(* Durations are integers in milliseconds.                                 *)
(***************************************************************************)
EXTENDS Integers, Sequences, FiniteSets, TLC

VARIABLES
    students_db,      \* main.students_db: the roster built at startup
    claude_service,   \* main.claude_service: None or the configured client
    use_fallback,     \* main.use_fallback
    pc,               \* where the single event-loop task stands
    request,          \* the QuizRequest being served (or None)
    attempt,          \* generate_quiz_questions: loop variable
    last_error,       \* generate_quiz_questions: last_error
    delay,            \* generate_quiz_questions: delay of the latest sleep
    outcome,          \* how generate_quiz_questions ended (return / raise)
    used_fallback,    \* generate_quiz: used_fallback
    response,         \* what the handler handed back to the HTTP layer
    calls,            \* history: remote calls made for the current request
    waits,            \* history: backoff sleeps made for the current request
    retryable_failures, \* history: calls that ended in a retryable error
    fallback_calls,   \* history: fallback generator invocations
    live_attempts,    \* history: the handler's calls of generate_quiz_questions
    tasks,            \* the request tasks of the event loop, by task id
    running,          \* the task that occupies the event loop's thread, or 0
    probe,            \* input of a directly applied function
    probe_result      \* its result

vars == <<students_db, claude_service, use_fallback, pc, request, attempt,
          last_error, delay, outcome, used_fallback, response, calls, waits,
          retryable_failures, fallback_calls, live_attempts, tasks,
          running, probe, probe_result>>

None == "None"

-----------------------------------------------------------------------------
(* Bounds of the model *)

\* largest num_questions a request asks for (the pools hold 1 or 2 entries)
MaxQuestions == 4
\* largest max_retries a directly constructed client is given
MaxRetries == 3
\* number of requests the server holds at once
NumTasks == 2
\* largest attempt index handed to _calculate_backoff_delay directly
MaxAttempt == 8
\* number of seeds of the random module the roster is generated from
MaxSeeds == 3
\* the jitter draw random(), a number in [0, 1), is one of
\* 0/JitterSteps .. (JitterSteps - 1)/JitterSteps
JitterSteps == 2

-----------------------------------------------------------------------------
(* Strings *)

EndsWith(s, suffix) ==
    /\ Len(s) >= Len(suffix)
    /\ SubSeq(s, Len(s) - Len(suffix) + 1, Len(s)) = suffix

Digit(d) == <<"0", "1", "2", "3", "4", "5", "6", "7", "8", "9">>[d + 1]

\* f"{n:03d}" for 0 <= n <= 999
Pad3(n) == Digit(n \div 100) \o Digit((n \div 10) % 10) \o Digit(n % 10)

\* f"student-{student_id:03d}"
StudentId(n) == <<"student", "-", Pad3(n)>>

LINEAR_EQUATIONS == <<"linear", "_", "equations">>
QUADRATIC_EQUATIONS == <<"quadratic", "_", "equations">>
POLYNOMIALS == <<"polynomials">>
FACTORING == <<"factoring">>

\* topics a request may name: the four with a pool, two of MATH_TOPICS
\* without one, and free-form strings
Topics ==
    { LINEAR_EQUATIONS, QUADRATIC_EQUATIONS, POLYNOMIALS, FACTORING,
      <<"radicals">>, <<"systems", "_", "of", "_", "equations">>,
      <<"x", "-", "fallback">>, <<>> }

Counts == (0 - 1) .. MaxQuestions


-----------------------------------------------------------------------------
(* Exceptions.  An exception value is a record: its class, the status_code  *)
(* attribute (0 when the class has none) and the retry_after attribute      *)
(* (None when absent).                                                      *)

\* the classes of the anthropic package the service imports, and the
\* classes each one derives from (itself included)
Bases(cls) ==
    CASE cls = "RateLimitError" ->
            {"RateLimitError", "APIStatusError", "APIError", "Exception"}
      [] cls = "APIStatusError" -> {"APIStatusError", "APIError", "Exception"}
      [] cls = "APIConnectionError" ->
            {"APIConnectionError", "APIError", "Exception"}
      [] cls = "APIError" -> {"APIError", "Exception"}
      [] cls = "JSONDecodeError" -> {"JSONDecodeError", "ValueError", "Exception"}
      [] cls = "ValidationError" -> {"ValidationError", "ValueError", "Exception"}
      [] cls = "ClaudeAPIError" -> {"ClaudeAPIError", "Exception"}
      [] OTHER -> {cls, "Exception"}

isinstance(error, cls) == cls \in Bases(error.cls)

Exc(cls, status_code, retry_after) ==
    [cls |-> cls, status_code |-> status_code, retry_after |-> retry_after]

\* status codes the remote service answers with
StatusCodes == {400, 401, 403, 404, 413, 429, 500, 502, 503, 504, 529}

\* a rate-limit answer may carry a retry-after hint (seconds)
RetryAfterHints == {None, "30"}

\* what a call of client.messages.create raises
APIErrors ==
    {Exc("APIConnectionError", 0, None)}
    \cup {Exc("RateLimitError", 429, h) : h \in RetryAfterHints}
    \cup {Exc("APIStatusError", c, None) : c \in StatusCodes}

\* what parsing a response raises
ParseErrors ==
    { Exc("JSONDecodeError", 0, None), Exc("ValidationError", 0, None),
      Exc("TypeError", 0, None), Exc("IndexError", 0, None) }

Errors == APIErrors \cup ParseErrors \cup {Exc("APIError", 0, None)}

-----------------------------------------------------------------------------
(* ClaudeService *)

\* an optional string: os.getenv gives None or the variable's value
NoneStr == [present |-> FALSE, value |-> <<>>]
Str(tokens) == [present |-> TRUE, value |-> tokens]

\* Python's truth value of an optional string
Truthy(s) == s.present /\ s.value # <<>>

\* no exception
NoError == [cls |-> None, status_code |-> 0, retry_after |-> None]


\* a constructor that accepts any credential and leaves the failure to the
\* first remote call
ClaudeService_Deferred(api_key, max_retries, initial_retry_delay) ==
    [raised |-> None,
     max_retries |-> max_retries,
     initial_retry_delay |-> initial_retry_delay]
\* ClaudeService.__init__: the instance, or the ClaudeAPIError it raises
ClaudeService(api_key, max_retries, initial_retry_delay) ==
    IF ~Truthy(api_key)
    THEN [raised |-> "ClaudeAPIError", max_retries |-> 0,
          initial_retry_delay |-> 0]
    ELSE [raised |-> None,
          max_retries |-> max_retries,
          initial_retry_delay |-> initial_retry_delay]

RECURSIVE Pow2(_)
Pow2(n) == IF n <= 0 THEN 1 ELSE 2 * Pow2(n - 1)

Min(a, b) == IF a <= b THEN a ELSE b

\* a backoff that does not grow
BaseDelay_Constant(initial_retry_delay, attempt_index) == initial_retry_delay

\* base_delay = self.initial_retry_delay * (2 ** attempt)
BaseDelay(initial_retry_delay, attempt_index) ==
    initial_retry_delay * Pow2(attempt_index)

\* random.uniform(0, 0.1 * base_delay) for the draw random() = draw/JitterSteps
Jitter(base_delay, draw) == (draw * base_delay) \div (10 * JitterSteps)

JitterDraws == 0 .. JitterSteps - 1

\* the 60.0 second cap of _calculate_backoff_delay, in milliseconds
BACKOFF_CAP == 60000

\* the backoff delay without its cap
_calculate_backoff_delay_NoCap(initial_retry_delay, attempt_index, draw) ==
    BaseDelay(initial_retry_delay, attempt_index)
        + Jitter(BaseDelay(initial_retry_delay, attempt_index), draw)

_calculate_backoff_delay(initial_retry_delay, attempt_index, draw) ==
    LET base_delay == BaseDelay(initial_retry_delay, attempt_index)
        jitter == Jitter(base_delay, draw)
    IN  Min(base_delay + jitter, BACKOFF_CAP)

\* _should_retry without its status-code clause
_should_retry_NoStatusCodes(max_retries, error, attempt_index) ==
    IF attempt_index >= max_retries THEN FALSE
    ELSE IF isinstance(error, "APIConnectionError") THEN TRUE
    ELSE IF isinstance(error, "RateLimitError") THEN TRUE
    ELSE FALSE

\* _should_retry comparing the attempt with > instead of >=
_should_retry_OffByOne(max_retries, error, attempt_index) ==
    IF attempt_index > max_retries THEN FALSE
    ELSE IF isinstance(error, "APIConnectionError") THEN TRUE
    ELSE IF isinstance(error, "RateLimitError") THEN TRUE
    ELSE IF isinstance(error, "APIStatusError")
              /\ error.status_code \in {429, 500, 502, 503, 504, 529} THEN TRUE
    ELSE FALSE

RetryStatusCodes == {429, 500, 502, 503, 504, 529}

_should_retry(max_retries, error, attempt_index) ==
    IF attempt_index >= max_retries THEN FALSE
    ELSE IF isinstance(error, "APIConnectionError") THEN TRUE
    ELSE IF isinstance(error, "RateLimitError") THEN TRUE
    ELSE IF isinstance(error, "APIStatusError")
              /\ error.status_code \in RetryStatusCodes THEN TRUE
    ELSE FALSE

\* the user-facing messages, named by their intent
_get_user_friendly_error(error) ==
    IF isinstance(error, "RateLimitError") THEN "too_many_requests"
    ELSE IF isinstance(error, "APIConnectionError") THEN "unable_to_connect"
    ELSE IF isinstance(error, "APIStatusError") THEN
        CASE error.status_code = 401 -> "authentication_failed"
          [] error.status_code = 403 -> "access_denied"
          [] error.status_code = 404 -> "model_not_available"
          [] error.status_code = 429 -> "high_demand"
          [] error.status_code = 500 -> "internal_error"
          [] error.status_code = 529 -> "temporarily_overloaded"
          [] OTHER -> "error_with_code"
    ELSE IF isinstance(error, "JSONDecodeError") THEN "invalid_response"
    ELSE IF isinstance(error, "APIError") THEN "unexpected_service_error"
    ELSE "unexpected_error"

\* ClaudeAPIError(message, original_error, retry_after)
ClaudeAPIError(message, original_error, retry_after) ==
    [cls |-> "ClaudeAPIError", message |-> message,
     original_error |-> original_error, retry_after |-> retry_after]

-----------------------------------------------------------------------------
(* Quiz questions *)

QuestionFields == {"question", "options", "correct", "explanation", "topic"}

QuizQuestion(question, options, correct, explanation, topic) ==
    [question |-> question, options |-> options, correct |-> correct,
     explanation |-> explanation, topic |-> topic]

Options(a, b, c, d) == [A |-> a, B |-> b, C |-> c, D |-> d]

\* FallbackQuizGenerator: the pools, built anew by every call with the
\* requested topic as each entry's topic tag
fallback_questions(topic) ==
    [linear_equations |->
        << QuizQuestion("Solve for x: 2x + 5 = 13",
                        Options("x = 3", "x = 4", "x = 5", "x = 6"), "B",
                        "Subtract 5 from both sides: 2x = 8. Then divide by 2: x = 4.",
                        topic),
           QuizQuestion("What is the solution to: 3x - 7 = 14?",
                        Options("x = 5", "x = 6", "x = 7", "x = 8"), "C",
                        "Add 7 to both sides: 3x = 21. Then divide by 3: x = 7.",
                        topic) >>,
     quadratic_equations |->
        << QuizQuestion("What are the solutions to x^2 - 5x + 6 = 0?",
                        Options("x = 1, 6", "x = 2, 3", "x = -2, -3", "x = 1, 5"), "B",
                        "Factor to (x-2)(x-3) = 0. Solutions are x = 2 and x = 3.",
                        topic) >>,
     polynomials |->
        << QuizQuestion("Simplify: (2x + 3)(x - 4)",
                        Options("2x^2 - 5x - 12", "2x^2 - 8x - 12",
                                "2x^2 + 5x + 12", "2x^2 + 11x - 12"), "A",
                        "Use FOIL: 2x^2 - 8x + 3x - 12 = 2x^2 - 5x - 12.",
                        topic) >>,
     factoring |->
        << QuizQuestion("Factor: x^2 + 7x + 12",
                        Options("(x + 3)(x + 4)", "(x + 2)(x + 6)",
                                "(x + 1)(x + 12)", "(x - 3)(x - 4)"), "A",
                        "Find two numbers that multiply to 12 and add to 7: 3 and 4. So (x + 3)(x + 4).",
                        topic) >>]

\* the default pool tagged with its own topic instead of the requested one
PoolFor_DefaultTagged(topic) ==
    LET pools == fallback_questions(topic)
    IN  CASE topic = LINEAR_EQUATIONS -> pools.linear_equations
          [] topic = QUADRATIC_EQUATIONS -> pools.quadratic_equations
          [] topic = POLYNOMIALS -> pools.polynomials
          [] topic = FACTORING -> pools.factoring
          [] OTHER -> fallback_questions(LINEAR_EQUATIONS).linear_equations

\* fallback_questions.get(topic, fallback_questions["linear_equations"])
PoolFor(topic) ==
    LET pools == fallback_questions(topic)
    IN  CASE topic = LINEAR_EQUATIONS -> pools.linear_equations
          [] topic = QUADRATIC_EQUATIONS -> pools.quadratic_equations
          [] topic = POLYNOMIALS -> pools.polynomials
          [] topic = FACTORING -> pools.factoring
          [] OTHER -> pools.linear_equations

\* range(n) as the sequence of its indices, shifted to 1..n
Range(n) == IF n > 0 THEN 1 .. n ELSE {}


\* cycling that starts at the pool's second entry
generate_fallback_questions_Shifted(topic, num_questions) ==
    LET questions == PoolFor(topic)
    IN  [i \in Range(num_questions) |->
            questions[(i % Len(questions)) + 1]]
\* the pool cut to the requested length, without cycling
generate_fallback_questions_NoCycle(topic, num_questions) ==
    SubSeq(PoolFor(topic), 1, Min(num_questions, Len(PoolFor(topic))))

generate_fallback_questions(topic, num_questions) ==
    LET questions == PoolFor(topic)
    IN  [i \in Range(num_questions) |->
            questions[((i - 1) % Len(questions)) + 1]]


-----------------------------------------------------------------------------
(* The remote service's answers *)

\* a JSON object of the answer's array: the fields it carries
GoodItem(topic) ==
    QuizQuestion("Solve for x: x + 1 = 2",
                 Options("x = 0", "x = 1", "x = 2", "x = 3"), "B",
                 "Subtract 1 from both sides.", topic)

\* three options and a correct label that names none of them
OddItem(topic) ==
    [question |-> "Solve for x: x + 1 = 2",
     options |-> [A |-> "x = 0", B |-> "x = 1", C |-> "x = 2"],
     correct |-> "E", explanation |-> "Subtract 1 from both sides.",
     topic |-> topic]

\* an object without the correct, explanation and topic fields
PartialItem ==
    [question |-> "Solve for x: x + 1 = 2",
     options |-> Options("x = 0", "x = 1", "x = 2", "x = 3")]

\* messages.create's return value: the number of content blocks, how the
\* first block's text is fenced ("none", "bare" for ```, "json" for ```json,
\* "other" for any other tag), whether the text inside is JSON, and the
\* JSON value: an array of objects, or an object
Message(content_len, fence, json, type, items) ==
    [content_len |-> content_len, fence |-> fence, json |-> json,
     type |-> type, items |-> items]

Messages ==
    { Message(1, f, TRUE, "array", <<GoodItem(LINEAR_EQUATIONS)>>) :
          f \in {"none", "bare", "json", "other"} }
    \cup
    { Message(1, "none", TRUE, "array",
              <<GoodItem(LINEAR_EQUATIONS), GoodItem(<<"radicals">>)>>),
      Message(1, "none", TRUE, "array", <<>>),
      Message(1, "none", TRUE, "array", <<OddItem(LINEAR_EQUATIONS)>>),
      Message(1, "none", TRUE, "array",
              <<GoodItem(LINEAR_EQUATIONS), PartialItem>>),
      Message(1, "json", TRUE, "object", <<>>),
      Message(1, "none", FALSE, "array", <<>>),
      Message(0, "none", FALSE, "array", <<>>) }

\* what one call of client.messages.create does: return a message or raise
Reply(raised, message) == [raised |-> raised, message |-> message]

Replies ==
    { Reply(NoError, m) : m \in Messages }
    \cup { Reply(e, Message(0, "none", FALSE, "array", <<>>)) :
              e \in APIErrors \cup {Exc("APIError", 0, None)} }

\* the result of a computation that returns a value or raises
Returned(questions) == [raised |-> NoError, questions |-> questions]
Raised(e) == [raised |-> e, questions |-> <<>>]

\* QuizQuestion(**q): pydantic requires every field and ignores others
Construct(q) ==
    IF QuestionFields \subseteq DOMAIN q
    THEN Returned(<<[f \in QuestionFields |-> q[f]]>>)
    ELSE Raised(Exc("ValidationError", 0, None))

RECURSIVE ConstructAll(_)
ConstructAll(items) ==
    IF items = <<>> THEN Returned(<<>>)
    ELSE LET first == Construct(Head(items))
             rest == ConstructAll(Tail(items))
         IN  IF first.raised # NoError THEN first
             ELSE IF rest.raised # NoError THEN rest
             ELSE Returned(first.questions \o rest.questions)

\* lines 190-206 of generate_quiz_questions: strip the fence, parse the
\* JSON, build the questions
ParseMessage(message) ==
    IF message.content_len = 0 THEN Raised(Exc("IndexError", 0, None))
    ELSE IF message.fence = "other" \/ ~message.json
    THEN Raised(Exc("JSONDecodeError", 0, None))
    ELSE IF message.type = "object"
    THEN Raised(Exc("TypeError", 0, None))
    ELSE ConstructAll(message.items)

-----------------------------------------------------------------------------
(* generate_quiz_questions: what each except clause decides *)

Continue == [do |-> "continue", exc |-> NoError]
Raise(exc) == [do |-> "raise", exc |-> exc]


\* the clause retrying every API error while attempts remain
OnAPIError_RetryAll(service, e, attempt_index) ==
    IF attempt_index >= service.max_retries
    THEN Raise(ClaudeAPIError(
             _get_user_friendly_error(e), e,
             IF isinstance(e, "RateLimitError") THEN e.retry_after ELSE None))
    ELSE Continue

\* the clause raising without the retry-after hint
OnAPIError_NoHint(service, e, attempt_index) ==
    IF ~_should_retry(service.max_retries, e, attempt_index)
    THEN Raise(ClaudeAPIError(_get_user_friendly_error(e), e, None))
    ELSE Continue
\* except (APIConnectionError, RateLimitError, APIStatusError)
OnAPIError(service, e, attempt_index) ==
    IF ~_should_retry(service.max_retries, e, attempt_index)
    THEN Raise(ClaudeAPIError(
             _get_user_friendly_error(e), e,
             IF isinstance(e, "RateLimitError") THEN e.retry_after ELSE None))
    ELSE Continue

\* the JSONDecodeError clause retrying while attempts remain
OnJSONDecodeError_Retry(service, e, attempt_index) ==
    IF attempt_index < service.max_retries THEN Continue
    ELSE Raise(ClaudeAPIError(_get_user_friendly_error(e), e, None))

\* except json.JSONDecodeError
OnJSONDecodeError(service, e, attempt_index) ==
    Raise(ClaudeAPIError(_get_user_friendly_error(e), e, None))


\* the except Exception clause going on to the next attempt
OnException_Continue(service, e, attempt_index) ==
    IF attempt_index < service.max_retries THEN Continue
    ELSE Raise(ClaudeAPIError(_get_user_friendly_error(e), e, None))
\* the except Exception clause letting the exception through as it is
OnException_Reraise(service, e, attempt_index) == Raise(e)

\* except Exception
OnException(service, e, attempt_index) ==
    Raise(ClaudeAPIError(_get_user_friendly_error(e), e, None))

\* the except clauses in the order the try statement lists them
Except(service, e, attempt_index) ==
    IF \/ isinstance(e, "APIConnectionError")
       \/ isinstance(e, "RateLimitError")
       \/ isinstance(e, "APIStatusError")
    THEN OnAPIError(service, e, attempt_index)
    ELSE IF isinstance(e, "JSONDecodeError")
    THEN OnJSONDecodeError(service, e, attempt_index)
    ELSE OnException(service, e, attempt_index)

\* lines 243-245: the loop ran out of attempts
AfterLoop(error) ==
    ClaudeAPIError(
        IF error # NoError THEN _get_user_friendly_error(error)
        ELSE "failed_after_multiple_attempts",
        error, None)

\* the categories of failure the retry policy calls retryable
RetryableCategory(e) ==
    \/ e.cls = "APIConnectionError"
    \/ e.cls = "RateLimitError"
    \/ e.cls = "APIStatusError" /\ e.status_code \in {429, 500, 502, 503, 504, 529}

-----------------------------------------------------------------------------
(* risk_engine.py *)

\* the fields of an Assignment the risk engine reads
Assignment(score, attempts, time_spent_minutes, topics) ==
    [score |-> score, attempts |-> attempts,
     time_spent_minutes |-> time_spent_minutes, topics |-> topics]

\* the fields of a Student the risk engine reads; last_active is kept as the
\* age of the timestamp in whole hours at the time of the computation
Student(assignments, last_active) ==
    [assignments |-> assignments, last_active |-> last_active]

\* (datetime.now() - student.last_active).days
DaysInactive(student) == student.last_active \div 24

\* seq[-n:]
LastN(seq, n) ==
    IF Len(seq) <= n THEN seq ELSE SubSeq(seq, Len(seq) - n + 1, Len(seq))

\* grades that count as declining only when each is below the one before
is_declining_Strict(grades) ==
    IF Len(grades) < 3 THEN FALSE
    ELSE \A i \in 2 .. Len(grades) : ~(grades[i] >= grades[i - 1])

is_declining(grades) ==
    IF Len(grades) < 3 THEN FALSE
    ELSE \A i \in 2 .. Len(grades) : ~(grades[i] > grades[i - 1])

\* what one clause of calculate_risk_score adds to score and reasons
Points(points, tag) == [points |-> points, reasons |-> <<tag>>]
NoPoints == [points |-> 0, reasons |-> <<>>]

\* lines 23-26
TrendClause(recent_grades) ==
    IF Len(recent_grades) >= 3 /\ is_declining(recent_grades)
    THEN Points(20, "declining_grades") ELSE NoPoints

\* lines 29-34
GradeClause(latest_grade) ==
    IF latest_grade < 60 THEN Points(25, "grade_below_60")
    ELSE IF latest_grade < 70 THEN Points(15, "grade_below_70")
    ELSE NoPoints

\* lines 37-42
AttemptsClause(latest_attempts) ==
    IF latest_attempts >= 5 THEN Points(15, "multiple_attempts_5plus")
    ELSE IF latest_attempts >= 3 THEN Points(10, "multiple_attempts_3plus")
    ELSE NoPoints

\* an inactivity clause that counts the eighth day as the seventh
InactivityClause_From9(days_inactive) ==
    IF days_inactive > 8 THEN Points(15, "inactive_7plus_days")
    ELSE IF days_inactive > 5 THEN Points(10, "inactive_5plus_days")
    ELSE NoPoints

\* lines 46-52
InactivityClause(days_inactive) ==
    IF days_inactive > 7 THEN Points(15, "inactive_7plus_days")
    ELSE IF days_inactive > 5 THEN Points(10, "inactive_5plus_days")
    ELSE NoPoints

CLASS_AVG_TIME == 60

\* lines 56-59
TimeClause(time_spent_minutes) ==
    IF time_spent_minutes > CLASS_AVG_TIME * 2
    THEN Points(10, "excessive_time") ELSE NoPoints


\* the attempts and time clauses reading the first assignment
Clauses_FirstAssignment(student) ==
    LET assignments == student.assignments
        recent_grades == [i \in 1 .. Len(LastN(assignments, 4)) |->
                              LastN(assignments, 4)[i].score]
        first == assignments[1]
    IN  << TrendClause(recent_grades),
           GradeClause(recent_grades[Len(recent_grades)]),
           AttemptsClause(first.attempts),
           InactivityClause(DaysInactive(student)),
           TimeClause(first.time_spent_minutes) >>
\* the clauses of calculate_risk_score in the order the code evaluates them
Clauses(student) ==
    LET assignments == student.assignments
        recent_grades == [i \in 1 .. Len(LastN(assignments, 4)) |->
                              LastN(assignments, 4)[i].score]
        latest == assignments[Len(assignments)]
    IN  << TrendClause(recent_grades),
           GradeClause(recent_grades[Len(recent_grades)]),
           AttemptsClause(latest.attempts),
           InactivityClause(DaysInactive(student)),
           TimeClause(latest.time_spent_minutes) >>

RECURSIVE SumPoints(_)
SumPoints(clauses) ==
    IF clauses = <<>> THEN 0
    ELSE Head(clauses).points + SumPoints(Tail(clauses))

RECURSIVE AllReasons(_)
AllReasons(clauses) ==
    IF clauses = <<>> THEN <<>>
    ELSE Head(clauses).reasons \o AllReasons(Tail(clauses))

\* every tier a value reaches adds its points, and the sum is returned as is
calculate_risk_score_Cumulative(student) ==
    IF student.assignments = <<>> THEN [score |-> 0, reasons |-> <<>>]
    ELSE LET latest == student.assignments[Len(student.assignments)]
             extra == (IF latest.score < 60 THEN 15 ELSE 0)
                      + (IF latest.attempts >= 5 THEN 10 ELSE 0)
                      + (IF DaysInactive(student) > 7 THEN 10 ELSE 0)
         IN  [score |-> SumPoints(Clauses(student)) + extra,
              reasons |-> AllReasons(Clauses(student))]

\* the inactivity clause applied to a student without assignments as well
calculate_risk_score_NoShortCircuit(student) ==
    IF student.assignments = <<>>
    THEN [score |-> InactivityClause(DaysInactive(student)).points,
          reasons |-> InactivityClause(DaysInactive(student)).reasons]
    ELSE [score |-> Min(SumPoints(Clauses(student)), 100),
          reasons |-> AllReasons(Clauses(student))]
calculate_risk_score(student) ==
    IF student.assignments = <<>> THEN [score |-> 0, reasons |-> <<>>]
    ELSE [score |-> Min(SumPoints(Clauses(student)), 100),
          reasons |-> AllReasons(Clauses(student))]

\* the HIGH level beginning one point early
get_risk_level_From40(risk_score) ==
    IF risk_score >= 40 THEN "high"
    ELSE IF risk_score >= 21 THEN "medium"
    ELSE "low"

get_risk_level(risk_score) ==
    IF risk_score >= 41 THEN "high"
    ELSE IF risk_score >= 21 THEN "medium"
    ELSE "low"

\* lines 87-92: the (topic, score) pairs in the order the loops append them
RECURSIVE TopicEntries(_)
TopicEntries(assignments) ==
    IF assignments = <<>> THEN <<>>
    ELSE [i \in 1 .. Len(Head(assignments).topics) |->
              [topic |-> Head(assignments).topics[i],
               score |-> Head(assignments).score]]
         \o TopicEntries(Tail(assignments))

\* the keys of topic_scores in insertion order
RECURSIVE TopicKeys(_)
TopicKeys(entries) ==
    IF entries = <<>> THEN <<>>
    ELSE LET front == TopicKeys(SubSeq(entries, 1, Len(entries) - 1))
             last == entries[Len(entries)].topic
         IN  IF \E i \in 1 .. Len(front) : front[i] = last
             THEN front ELSE Append(front, last)

\* topic_scores[topic]
ScoresOf(entries, topic) ==
    LET Listed(entry) == entry.topic = topic
        listed == SelectSeq(entries, Listed)
    IN  [i \in 1 .. Len(listed) |-> listed[i].score]

RECURSIVE Sum(_)
Sum(scores) == IF scores = <<>> THEN 0 ELSE Head(scores) + Sum(Tail(scores))

\* sum(scores) / len(scores) < 70, for whole-number scores
AverageBelow70(scores) == Sum(scores) < 70 * Len(scores)

\* a threshold that takes in an average of exactly 70
analyze_struggling_topics_Inclusive(student) ==
    LET entries == TopicEntries(student.assignments)
        Struggling(topic) ==
            Sum(ScoresOf(entries, topic)) <= 70 * Len(ScoresOf(entries, topic))
    IN  SelectSeq(TopicKeys(entries), Struggling)

analyze_struggling_topics(student) ==
    LET entries == TopicEntries(student.assignments)
        Struggling(topic) == AverageBelow70(ScoresOf(entries, topic))
    IN  SelectSeq(TopicKeys(entries), Struggling)

-----------------------------------------------------------------------------
(* State *)

NoService == [raised |-> "unset", max_retries |-> 0, initial_retry_delay |-> 0]
NoRequest == [active |-> FALSE, student_id |-> <<>>, topic |-> <<>>,
              num_questions |-> 0]
Pending == [do |-> "pending", exc |-> NoError, questions |-> <<>>]
NoResponse == [kind |-> None, status |-> 0, quiz_id |-> <<>>,
               student_id |-> <<>>, topic |-> <<>>, questions |-> <<>>]

\* a task of the event loop that serves no request
NoTask ==
    [pc |-> "idle", request |-> NoRequest, attempt |-> 0, outcome |-> Pending,
     delay |-> 0, response |-> NoResponse, cancelled |-> FALSE,
     calls_after_cancel |-> 0]
TaskIds == 1 .. NumTasks
NoTasks == [t \in TaskIds |-> NoTask]
NoProbe == [fn |-> None]
NoResult == [done |-> FALSE, value |-> None]

\* the configuration main.startup_event passes to ClaudeService
CONFIG_MAX_RETRIES == 3
CONFIG_INITIAL_RETRY_DELAY == 1000

\* the roster holds student-001 .. student-030
ROSTER_SIZE == 30

\* generate_mock_students: the ids of the students it creates
generate_mock_students == [n \in 1 .. ROSTER_SIZE |-> [id |-> StudentId(n)]]

\* what ANTHROPIC_API_KEY may be at startup
ApiKeys == {NoneStr, Str(<<>>), Str(<<"sk", "-", "ant">>)}

\* the student ids a request may name: the first and last of the roster,
\* one past it, and a string of another shape
RequestStudentIds ==
    {StudentId(1), StudentId(ROSTER_SIZE), StudentId(ROSTER_SIZE + 1), <<"nobody">>}

Known(student_id) ==
    \E i \in 1 .. Len(students_db) : students_db[i].id = student_id

TitleWord(w) ==
    CASE w = "linear" -> "Linear" [] w = "equations" -> "Equations"
      [] w = "quadratic" -> "Quadratic" [] w = "polynomials" -> "Polynomials"
      [] w = "factoring" -> "Factoring" [] w = "radicals" -> "Radicals"
      [] w = "systems" -> "Systems" [] w = "of" -> "Of"
      [] w = "x" -> "X" [] w = "fallback" -> "Fallback"
      [] OTHER -> w

\* topic.replace("_", " ").title()
TopicDisplay(topic) ==
    [i \in 1 .. Len(topic) |->
        IF topic[i] = "_" THEN " " ELSE TitleWord(topic[i])]

FALLBACK_SUFFIX == <<"-", "fallback">>

\* the identifier without the fallback suffix
QuizId_NoSuffix(student_id, topic, fallback) ==
    <<"quiz", "-">> \o student_id \o <<"-">> \o topic

\* lines 192-195 of generate_quiz
QuizId(student_id, topic, fallback) ==
    <<"quiz", "-">> \o student_id \o <<"-">> \o topic
        \o (IF fallback THEN FALLBACK_SUFFIX ELSE <<>>)

QuizResponse(quiz_id, student_id, topic, questions) ==
    [kind |-> "QuizResponse", status |-> 200, quiz_id |-> quiz_id,
     student_id |-> student_id, topic |-> topic, questions |-> questions]

HTTPException(status) ==
    [kind |-> "HTTPException", status |-> status, quiz_id |-> <<>>,
     student_id |-> <<>>, topic |-> <<>>, questions |-> <<>>]

\* an exception the handler does not catch leaves it: the server answers 500
Unhandled == HTTPException(500)

-----------------------------------------------------------------------------
(* Actions *)

server == <<students_db, claude_service, use_fallback>>
client == <<attempt, last_error, delay, outcome, calls, waits, retryable_failures>>
handler == <<request, used_fallback, response, fallback_calls, live_attempts>>
probes == <<probe, probe_result>>
loop == <<tasks, running>>

Outcome(do, exc, questions) == [do |-> do, exc |-> exc, questions |-> questions]

Init ==
    /\ students_db = <<>>
    /\ claude_service = NoService
    /\ use_fallback = FALSE
    /\ pc = "boot"
    /\ request = NoRequest
    /\ attempt = 0
    /\ last_error = NoError
    /\ delay = 0
    /\ outcome = Pending
    /\ used_fallback = FALSE
    /\ response = NoResponse
    /\ calls = 0
    /\ waits = 0
    /\ retryable_failures = 0
    /\ fallback_calls = 0
    /\ live_attempts = 0
    /\ tasks = NoTasks
    /\ running = 0
    /\ probe = NoProbe
    /\ probe_result = NoResult

\* main.startup_event
startup_event ==
    /\ pc = "boot"
    /\ students_db' = generate_mock_students
    /\ \E api_key \in ApiKeys :
          IF Truthy(api_key)
          THEN LET made == ClaudeService(api_key, CONFIG_MAX_RETRIES,
                                         CONFIG_INITIAL_RETRY_DELAY)
               IN  IF made.raised = "ClaudeAPIError"
                   THEN claude_service' = NoService /\ use_fallback' = TRUE
                   ELSE claude_service' = made /\ use_fallback' = FALSE
          ELSE claude_service' = NoService /\ use_fallback' = TRUE
    /\ pc' = "idle"
    /\ UNCHANGED <<loop, client, handler, probes>>

\* generate_quiz_questions up to its first remote call (lines 138-178), or
\* up to the raise after a loop that has no iteration
EnterClient(service) ==
    /\ attempt' = 0
    /\ last_error' = NoError
    /\ delay' = 0
    /\ calls' = 0
    /\ waits' = 0
    /\ retryable_failures' = 0
    /\ IF 0 <= service.max_retries
       THEN pc' = "call" /\ outcome' = Pending
       ELSE /\ pc' = "client_done"
            /\ outcome' = Outcome("raise", AfterLoop(NoError), <<>>)

\* lines 192-202 of generate_quiz
Respond(req, questions, fallback) ==
    /\ used_fallback' = fallback
    /\ response' = QuizResponse(QuizId(req.student_id, req.topic, fallback),
                                req.student_id, TopicDisplay(req.topic),
                                questions)
    /\ pc' = "done"

\* generate_quiz, from the request's arrival to its first remote call, or to
\* its response when no remote call is made (lines 125-154, 183-202)
generate_quiz(student_id, topic, num_questions) ==
    /\ pc = "idle"
    /\ LET req == [active |-> TRUE, student_id |-> student_id,
                   topic |-> topic, num_questions |-> num_questions]
       IN  /\ request' = req
           /\ IF ~Known(student_id)
              THEN /\ response' = HTTPException(404)
                   /\ pc' = "done"
                   /\ UNCHANGED <<client, used_fallback, fallback_calls,
                                  live_attempts>>
              ELSE IF ~use_fallback /\ claude_service.raised = None
              THEN /\ EnterClient(claude_service)
                   /\ live_attempts' = live_attempts + 1
                   /\ UNCHANGED <<used_fallback, response, fallback_calls>>
              ELSE /\ Respond(req,
                              generate_fallback_questions(topic, num_questions),
                              TRUE)
                   /\ fallback_calls' = fallback_calls + 1
                   /\ UNCHANGED <<client, live_attempts>>
    /\ UNCHANGED <<loop, server, probes>>


\* a sleep computed from the attempt number instead of the retry number
Backoff_FromAttempt ==
    /\ pc = "backoff"
    /\ \E draw \in JitterDraws :
          delay' = _calculate_backoff_delay(claude_service.initial_retry_delay,
                                            attempt, draw)
    /\ waits' = waits + 1
    /\ pc' = "call"
    /\ UNCHANGED <<loop, server, handler, probes, attempt, last_error, outcome,
                   calls, retryable_failures>>
\* the time.sleep before a retry (lines 173-176)
Backoff ==
    /\ pc = "backoff"
    /\ \E draw \in JitterDraws :
          delay' = _calculate_backoff_delay(claude_service.initial_retry_delay,
                                            attempt - 1, draw)
    /\ waits' = waits + 1
    /\ pc' = "call"
    /\ UNCHANGED <<loop, server, handler, probes, attempt, last_error, outcome,
                   calls, retryable_failures>>

\* one remote call and what the loop body does with its answer
\* (lines 178-241)
RemoteCall ==
    /\ pc = "call"
    /\ calls' = calls + 1
    /\ \E reply \in Replies :
          LET result == IF reply.raised # NoError THEN Raised(reply.raised)
                        ELSE ParseMessage(reply.message)
              e == result.raised
              clause == Except(claude_service, e, attempt)
          IN  IF e = NoError
              THEN /\ outcome' = Outcome("return", NoError, result.questions)
                   /\ pc' = "client_done"
                   /\ UNCHANGED <<attempt, last_error, retryable_failures>>
              ELSE /\ last_error' = e
                   /\ retryable_failures' =
                         IF reply.raised # NoError /\ RetryableCategory(e)
                         THEN retryable_failures + 1 ELSE retryable_failures
                   /\ IF clause.do = "raise"
                      THEN /\ outcome' = Outcome("raise", clause.exc, <<>>)
                           /\ pc' = "client_done"
                           /\ UNCHANGED attempt
                      ELSE IF attempt + 1 <= claude_service.max_retries
                      THEN /\ attempt' = attempt + 1
                           /\ pc' = "backoff"
                           /\ UNCHANGED outcome
                      ELSE /\ outcome' = Outcome("raise", AfterLoop(e), <<>>)
                           /\ pc' = "client_done"
                           /\ UNCHANGED attempt
    /\ UNCHANGED <<loop, server, handler, probes, delay, waits>>


\* a handler that adds the fallback questions to every live result
generate_quiz_resume_Mixed ==
    /\ pc = "client_done"
    /\ request.active
    /\ IF isinstance(outcome.exc, "ClaudeAPIError") \/ outcome.do = "return"
       THEN /\ Respond(request,
                       outcome.questions
                           \o generate_fallback_questions(request.topic,
                                                          request.num_questions),
                       outcome.do # "return")
            /\ fallback_calls' = fallback_calls + 1
       ELSE /\ response' = Unhandled
            /\ pc' = "done"
            /\ UNCHANGED <<used_fallback, fallback_calls>>
    /\ UNCHANGED <<loop, server, client, request, live_attempts, probes>>
\* generate_quiz after generate_quiz_questions has returned or raised
\* (lines 162-202)
generate_quiz_resume ==
    /\ pc = "client_done"
    /\ request.active
    /\ IF outcome.do = "return"
       THEN /\ Respond(request, outcome.questions, FALSE)
            /\ UNCHANGED fallback_calls
       ELSE IF isinstance(outcome.exc, "ClaudeAPIError")
       THEN /\ Respond(request,
                       generate_fallback_questions(request.topic,
                                                   request.num_questions),
                       TRUE)
            /\ fallback_calls' = fallback_calls + 1
       ELSE /\ response' = Unhandled
            /\ pc' = "done"
            /\ UNCHANGED <<used_fallback, fallback_calls>>
    /\ UNCHANGED <<loop, server, client, request, live_attempts, probes>>

\* the response is sent; the server waits for the next request
NextRequest ==
    /\ pc = "done"
    /\ pc' = "idle"
    /\ request' = NoRequest
    /\ response' = NoResponse
    /\ used_fallback' = FALSE
    /\ fallback_calls' = 0
    /\ live_attempts' = 0
    /\ attempt' = 0
    /\ last_error' = NoError
    /\ delay' = 0
    /\ outcome' = Pending
    /\ calls' = 0
    /\ waits' = 0
    /\ retryable_failures' = 0
    /\ UNCHANGED <<loop, server, probes>>

Next ==
    \/ startup_event
    \/ \E student_id \in RequestStudentIds, topic \in Topics, n \in Counts :
          generate_quiz(student_id, topic, n)
    \/ Backoff
    \/ RemoteCall
    \/ generate_quiz_resume
    \/ NextRequest

Spec == Init /\ [][Next]_vars

\* a request runs to its end: the sleep ends, the remote call answers, the
\* handler resumes
SpecLive ==
    /\ Spec
    /\ WF_vars(Backoff)
    /\ WF_vars(RemoteCall)
    /\ WF_vars(generate_quiz_resume)

-----------------------------------------------------------------------------
(* The client on its own: ClaudeService constructed with any retry         *)
(* configuration, generate_quiz_questions called directly.                 *)

\* initial_retry_delay: none, the 0.1 s of the integration test, the default
InitialDelays == {0, 100, 1000}

Services ==
    { ClaudeService(Str(<<"test", "_", "key">>), m, d) :
          m \in 0 .. MaxRetries, d \in InitialDelays }

InitClient ==
    /\ students_db = <<>>
    /\ claude_service \in Services
    /\ use_fallback = FALSE
    /\ pc = "direct"
    /\ request = NoRequest
    /\ attempt = 0
    /\ last_error = NoError
    /\ delay = 0
    /\ outcome = Pending
    /\ used_fallback = FALSE
    /\ response = NoResponse
    /\ calls = 0
    /\ waits = 0
    /\ retryable_failures = 0
    /\ fallback_calls = 0
    /\ live_attempts = 0
    /\ tasks = NoTasks
    /\ running = 0
    /\ probe = NoProbe
    /\ probe_result = NoResult

\* a caller invokes generate_quiz_questions
DirectCall ==
    /\ pc = "direct"
    /\ EnterClient(claude_service)
    /\ UNCHANGED <<loop, server, handler, probes>>

\* generate_quiz_questions has returned or raised to that caller
DirectDone ==
    /\ pc = "client_done"
    /\ ~request.active
    /\ pc' = "direct"
    /\ attempt' = 0
    /\ last_error' = NoError
    /\ delay' = 0
    /\ outcome' = Pending
    /\ calls' = 0
    /\ waits' = 0
    /\ retryable_failures' = 0
    /\ UNCHANGED <<loop, server, handler, probes>>

NextClient == DirectCall \/ Backoff \/ RemoteCall \/ DirectDone

SpecClient == InitClient /\ [][NextClient]_vars

-----------------------------------------------------------------------------
(* The server with several requests at once.  Each request is a task of   *)
(* the one event loop; generate_quiz and generate_quiz_questions are       *)
(* coroutines without a suspending await between the handler's entry and   *)
(* its return: time.sleep and the synchronous client.messages.create keep  *)
(* the loop's thread.                                                      *)

\* the requests sent to the server: a known and an unknown student
ServerRequests ==
    { [active |-> TRUE, student_id |-> s, topic |-> LINEAR_EQUATIONS,
       num_questions |-> 1] : s \in {StudentId(1), <<"nobody">>} }

\* the remote service's answers: questions, text that is no JSON, a rate
\* limit, a connection failure, a rejected credential
ServerReplies ==
    { r \in Replies :
        \/ r.raised = NoError /\ r.message.fence = "none"
              /\ r.message.items \in {<<>>, <<GoodItem(LINEAR_EQUATIONS)>>}
              /\ r.message.content_len = 1
        \/ r.raised.cls \in {"RateLimitError", "APIConnectionError"}
        \/ r.raised.status_code = 401 }

InitServer ==
    /\ students_db = generate_mock_students
    /\ \E api_key \in ApiKeys :
          IF Truthy(api_key)
          THEN /\ claude_service = ClaudeService(api_key, CONFIG_MAX_RETRIES,
                                                 CONFIG_INITIAL_RETRY_DELAY)
               /\ use_fallback = FALSE
          ELSE claude_service = NoService /\ use_fallback = TRUE
    /\ pc = "serving"
    /\ request = NoRequest
    /\ attempt = 0
    /\ last_error = NoError
    /\ delay = 0
    /\ outcome = Pending
    /\ used_fallback = FALSE
    /\ response = NoResponse
    /\ calls = 0
    /\ waits = 0
    /\ retryable_failures = 0
    /\ fallback_calls = 0
    /\ live_attempts = 0
    /\ tasks = NoTasks
    /\ running = 0
    /\ probe = NoProbe
    /\ probe_result = NoResult

globals == <<server, client, handler, probes, pc>>

\* the server accepts a request and creates its task; the task runs when
\* the event loop gives it the thread
accept(t, req) ==
    /\ tasks[t].pc = "idle"
    /\ tasks' = [tasks EXCEPT ![t] = [NoTask EXCEPT !.pc = "arrived",
                                                    !.request = req]]
    /\ UNCHANGED <<running, globals>>

\* the handler returns or raises: its locals are gone, its result stays
TaskReturn(task, result) ==
    [task EXCEPT !.pc = "done", !.attempt = 0, !.outcome = Pending,
                 !.delay = 0, !.response = result]

\* lines 192-202 of generate_quiz, for the task's request
TaskRespond(task, questions, fallback) ==
    TaskReturn(task,
               QuizResponse(QuizId(task.request.student_id,
                                   task.request.topic, fallback),
                            task.request.student_id,
                            TopicDisplay(task.request.topic),
                            questions))

\* the event loop runs the task: generate_quiz from its entry to the first
\* remote call, or to its return when no remote call is made
task_generate_quiz(t) ==
    /\ tasks[t].pc = "arrived"
    /\ running = 0
    /\ LET task == tasks[t]
       IN  IF ~Known(task.request.student_id)
           THEN /\ tasks' = [tasks EXCEPT ![t] =
                                TaskReturn(task, HTTPException(404))]
                /\ UNCHANGED running
           ELSE IF ~use_fallback /\ claude_service.raised = None
           THEN /\ tasks' = [tasks EXCEPT ![t] =
                                [task EXCEPT !.pc = "call", !.attempt = 0]]
                /\ running' = t
           ELSE /\ tasks' = [tasks EXCEPT ![t] =
                                TaskRespond(task,
                                    generate_fallback_questions(
                                        task.request.topic,
                                        task.request.num_questions),
                                    TRUE)]
                /\ UNCHANGED running
    /\ UNCHANGED globals

\* self.client.messages.create is called (line 181); the thread stays with
\* the task until the answer is there
task_messages_create(t) ==
    /\ tasks[t].pc = "call"
    /\ running = t
    /\ LET task == tasks[t]
       IN  tasks' = [tasks EXCEPT ![t] =
                        [task EXCEPT
                            !.pc = "in_flight",
                            !.calls_after_cancel =
                                IF task.cancelled THEN @ + 1 ELSE @]]
    /\ UNCHANGED <<running, globals>>

\* the remote call answers and the loop body deals with the answer
\* (lines 186-241); on a retry the next iteration computes its delay and
\* enters time.sleep (lines 173-176)
task_messages_reply(t) ==
    /\ tasks[t].pc = "in_flight"
    /\ running = t
    /\ \E reply \in ServerReplies, draw \in JitterDraws :
          LET task == tasks[t]
              result == IF reply.raised # NoError THEN Raised(reply.raised)
                        ELSE ParseMessage(reply.message)
              e == result.raised
              clause == Except(claude_service, e, task.attempt)
              ended(o) == [task EXCEPT !.pc = "client_done", !.outcome = o]
          IN  tasks' = [tasks EXCEPT ![t] =
                  IF e = NoError
                  THEN ended(Outcome("return", NoError, result.questions))
                  ELSE IF clause.do = "raise"
                  THEN ended(Outcome("raise", clause.exc, <<>>))
                  ELSE IF task.attempt + 1 <= claude_service.max_retries
                  THEN [task EXCEPT
                           !.pc = "backoff",
                           !.attempt = @ + 1,
                           !.delay = _calculate_backoff_delay(
                                         claude_service.initial_retry_delay,
                                         task.attempt, draw)]
                  ELSE ended(Outcome("raise", AfterLoop(e), <<>>))]
    /\ UNCHANGED <<running, globals>>

\* time.sleep(delay) returns; the thread was the task's for the whole delay
task_sleep(t) ==
    /\ tasks[t].pc = "backoff"
    /\ running = t
    /\ tasks' = [tasks EXCEPT ![t].pc = "call", ![t].delay = 0]
    /\ UNCHANGED <<running, globals>>

\* generate_quiz after generate_quiz_questions has returned or raised, to
\* its return (lines 162-202); the thread is free again
task_generate_quiz_resume(t) ==
    /\ tasks[t].pc = "client_done"
    /\ running = t
    /\ LET task == tasks[t]
       IN  tasks' = [tasks EXCEPT ![t] =
               IF task.outcome.do = "return"
               THEN TaskRespond(task, task.outcome.questions, FALSE)
               ELSE IF isinstance(task.outcome.exc, "ClaudeAPIError")
               THEN TaskRespond(task,
                                generate_fallback_questions(
                                    task.request.topic,
                                    task.request.num_questions),
                                TRUE)
               ELSE TaskReturn(task, Unhandled)]
    /\ running' = 0
    /\ UNCHANGED globals

\* the request is cancelled from outside (the caller gives up, the server
\* shuts down) while the task is in a backoff wait or a remote call.  The
\* cancellation is delivered at a suspending await; time.sleep and the
\* synchronous remote call are none, so the task only carries the mark.
cancel(t) ==
    /\ tasks[t].pc \in {"backoff", "in_flight"}
    /\ ~tasks[t].cancelled
    /\ tasks' = [tasks EXCEPT ![t].cancelled = TRUE]
    /\ UNCHANGED <<running, globals>>

\* the handler's result has left the server; the task is gone
task_done(t) ==
    /\ tasks[t].pc = "done"
    /\ tasks' = [tasks EXCEPT ![t] = NoTask]
    /\ UNCHANGED <<running, globals>>

NextServer ==
    \E t \in TaskIds :
        \/ \E req \in ServerRequests : accept(t, req)
        \/ task_generate_quiz(t)
        \/ task_messages_create(t)
        \/ task_messages_reply(t)
        \/ task_sleep(t)
        \/ task_generate_quiz_resume(t)
        \/ cancel(t)
        \/ task_done(t)

SpecServer == InitServer /\ [][NextServer]_vars

-----------------------------------------------------------------------------
(* The pure functions applied to inputs drawn from bounded sets *)

Probe(fn, topic, num_questions, max_retries, error, attempt_index,
      initial_retry_delay, draw) ==
    [fn |-> fn, topic |-> topic, num_questions |-> num_questions,
     max_retries |-> max_retries, error |-> error,
     attempt_index |-> attempt_index,
     initial_retry_delay |-> initial_retry_delay, draw |-> draw]

FallbackProbes ==
    { Probe("generate_fallback_questions", t, n, 0, NoError, 0, 0, 0) :
          t \in Topics, n \in Counts }

RetryProbes ==
    { Probe("_should_retry", <<>>, 0, m, e, a, 0, 0) :
          m \in 0 .. MaxRetries, e \in Errors, a \in 0 .. MaxRetries + 1 }

\* initial_retry_delay values handed to the backoff computation directly:
\* negative, zero, fractions of a second, the default, beyond the cap
ProbeDelays == {0 - 1000, 0, 100, 1000, 1500, 90000}

BackoffProbes ==
    { Probe("_calculate_backoff_delay", <<>>, 0, 0, NoError, a, d, j) :
          a \in 0 .. MaxAttempt, d \in ProbeDelays, j \in JitterDraws }


\* ClaudeService(api_key=..., max_retries=..., initial_retry_delay=...)
ConstructProbes ==
    { [fn |-> "ClaudeService", api_key |-> k, max_retries |-> m,
       initial_retry_delay |-> d] :
          k \in ApiKeys, m \in 0 .. MaxRetries, d \in InitialDelays }
InitProbe ==
    /\ students_db = <<>>
    /\ claude_service = NoService
    /\ use_fallback = FALSE
    /\ pc = "probe"
    /\ request = NoRequest
    /\ attempt = 0
    /\ last_error = NoError
    /\ delay = 0
    /\ outcome = Pending
    /\ used_fallback = FALSE
    /\ response = NoResponse
    /\ calls = 0
    /\ waits = 0
    /\ retryable_failures = 0
    /\ fallback_calls = 0
    /\ live_attempts = 0
    /\ tasks = NoTasks
    /\ running = 0
    /\ probe \in FallbackProbes \cup RetryProbes \cup BackoffProbes
                  \cup ConstructProbes
    /\ probe_result = NoResult

Result(value) == [done |-> TRUE, value |-> value]

Applies(fn) == pc = "probe" /\ probe.fn = fn /\ ~probe_result.done

call_generate_fallback_questions ==
    /\ Applies("generate_fallback_questions")
    /\ probe_result' =
          Result(generate_fallback_questions(probe.topic, probe.num_questions))
    /\ UNCHANGED <<loop, server, client, handler, pc, probe>>

call_should_retry ==
    /\ Applies("_should_retry")
    /\ probe_result' =
          Result(_should_retry(probe.max_retries, probe.error,
                               probe.attempt_index))
    /\ UNCHANGED <<loop, server, client, handler, pc, probe>>

call_calculate_backoff_delay ==
    /\ Applies("_calculate_backoff_delay")
    /\ probe_result' =
          Result(_calculate_backoff_delay(probe.initial_retry_delay,
                                          probe.attempt_index, probe.draw))
    /\ UNCHANGED <<loop, server, client, handler, pc, probe>>


call_ClaudeService ==
    /\ Applies("ClaudeService")
    /\ probe_result' =
          Result(ClaudeService(probe.api_key, probe.max_retries,
                               probe.initial_retry_delay))
    /\ UNCHANGED <<loop, server, client, handler, pc, probe>>
NextProbe ==
    \/ call_generate_fallback_questions
    \/ call_should_retry
    \/ call_calculate_backoff_delay
    \/ call_ClaudeService

SpecProbe == InitProbe /\ [][NextProbe]_vars

-----------------------------------------------------------------------------
(* The risk engine applied to students drawn from bounded sets *)

\* mock_data.generate_declining_assignments; times holds the draws of
\* random.randint(45, 90)
generate_declining_assignments(times) ==
    LET scores == <<85, 78, 72, 65, 58>>
        topics_sequence == << <<LINEAR_EQUATIONS>>, <<QUADRATIC_EQUATIONS>>,
                              << <<"radicals">>, <<"exponents">> >>,
                              << <<"radicals">>, POLYNOMIALS >>,
                              << <<"radicals">>, FACTORING >> >>
    IN  [i \in 1 .. 5 |->
            Assignment(scores[i], Min(i, 4), times[i], topics_sequence[i])]

DecliningStudents ==
    { Student(generate_declining_assignments(times), h) :
          times \in [1 .. 5 -> {45, 90}], h \in {72, 168, 192} }

\* most assignments of a student handed to the risk engine directly
MaxAssignments == 5

\* the latest score lies on either side of the 60 and 70 thresholds, the
\* scores before it rise, fall or stay
ScoreLists ==
    { Append(earlier, latest) :
          earlier \in UNION { [1 .. n -> {60, 70}] :
                                 n \in 0 .. MaxAssignments - 1 },
          latest \in {59, 60, 69, 70} }
    \cup { <<>>, <<85, 78, 72, 65, 58>> }

\* assignments with the given scores; the latest one with the given attempts
\* and minutes
Assignments(scores, attempts, minutes) ==
    [i \in 1 .. Len(scores) |->
        IF i = Len(scores)
        THEN Assignment(scores[i], attempts, minutes, <<LINEAR_EQUATIONS>>)
        ELSE Assignment(scores[i], 1, 60, <<LINEAR_EQUATIONS>>)]

\* ages of last_active in hours: today, 5 days and 23 hours, 6 days,
\* 7 days and 23 hours, 8 days
AgeHours == {0, 143, 144, 191, 192}

\* the same, the assignments before the latest with 5 attempts, 150 minutes
\* and a score of 55
AfterHardStart(scores, attempts, minutes) ==
    [i \in 1 .. Len(scores) |->
        IF i = Len(scores)
        THEN Assignment(scores[i], attempts, minutes, <<LINEAR_EQUATIONS>>)
        ELSE Assignment(55, 5, 150, <<LINEAR_EQUATIONS>>)]

RiskStudents ==
    { Student(Assignments(s, a, m), h) :
          s \in ScoreLists, a \in {2, 3, 4, 5}, m \in {120, 121},
          h \in AgeHours }
    \cup { Student(AfterHardStart(s, a, m), h) :
              s \in ScoreLists, a \in {2, 3, 5}, m \in {120, 121},
              h \in {0, 192} }
    \cup DecliningStudents

RiskProbes == { [fn |-> "calculate_risk_score", student |-> s] : s \in RiskStudents }

LevelProbes ==
    { [fn |-> "get_risk_level", risk_score |-> s] : s \in (0 - 5) .. 105 }

\* most assignments of a student handed to analyze_struggling_topics
MaxTopicAssignments == 3

TopicLists ==
    { <<LINEAR_EQUATIONS>>, << <<"radicals">> >>,
      <<LINEAR_EQUATIONS, <<"radicals">> >>,
      << <<"radicals">>, LINEAR_EQUATIONS>> }

TopicAssignments ==
    { Assignment(s, 1, 60, t) : s \in {60, 69, 70, 80}, t \in TopicLists }

TopicProbes ==
    { [fn |-> "analyze_struggling_topics", student |-> Student(a, 0)] :
          a \in UNION { [1 .. n -> TopicAssignments] :
                           n \in 0 .. MaxTopicAssignments } }

InitRisk ==
    /\ students_db = <<>>
    /\ claude_service = NoService
    /\ use_fallback = FALSE
    /\ pc = "probe"
    /\ request = NoRequest
    /\ attempt = 0
    /\ last_error = NoError
    /\ delay = 0
    /\ outcome = Pending
    /\ used_fallback = FALSE
    /\ response = NoResponse
    /\ calls = 0
    /\ waits = 0
    /\ retryable_failures = 0
    /\ fallback_calls = 0
    /\ live_attempts = 0
    /\ tasks = NoTasks
    /\ running = 0
    /\ probe \in RiskProbes \cup LevelProbes \cup TopicProbes
    /\ probe_result = NoResult

call_calculate_risk_score ==
    /\ Applies("calculate_risk_score")
    /\ probe_result' = Result(calculate_risk_score(probe.student))
    /\ UNCHANGED <<loop, server, client, handler, pc, probe>>

call_get_risk_level ==
    /\ Applies("get_risk_level")
    /\ probe_result' = Result(get_risk_level(probe.risk_score))
    /\ UNCHANGED <<loop, server, client, handler, pc, probe>>

call_analyze_struggling_topics ==
    /\ Applies("analyze_struggling_topics")
    /\ probe_result' = Result(analyze_struggling_topics(probe.student))
    /\ UNCHANGED <<loop, server, client, handler, pc, probe>>

NextRisk ==
    \/ call_calculate_risk_score
    \/ call_get_risk_level
    \/ call_analyze_struggling_topics

SpecRisk == InitRisk /\ [][NextRisk]_vars


-----------------------------------------------------------------------------
(* The roster as startup builds it, record by record, and the handlers    *)
(* that read it.  The random module is a generator whose draws are fixed   *)
(* by its seed; a roster is generated for each of MaxSeeds seeds, and the  *)
(* draw a call makes is a mix of the seed, the student and the call.       *)

MATH_TOPICS ==
    << LINEAR_EQUATIONS, QUADRATIC_EQUATIONS, <<"radicals">>, <<"exponents">>,
       POLYNOMIALS, FACTORING, <<"systems", "_", "of", "_", "equations">>,
       <<"inequalities">> >>

Seeds == 1 .. MaxSeeds

\* random.randint(a, b), the slot-th draw made for student n under a seed
randint(seed, n, slot, a, b) ==
    a + ((seed * seed * 3 + n * (seed + 2) + (n \div 3) + slot * (n + seed)
             + slot \div 2)
            % (b - a + 1))

\* random.sample(MATH_TOPICS, k=random.randint(1, 2)): one topic, or two
\* different ones in the order drawn
sample(seed, n, slot) ==
    LET k == randint(seed, n, 3 * slot, 1, 2)
        first == randint(seed, n, 3 * slot + 1, 1, Len(MATH_TOPICS))
        step == randint(seed, n, 3 * slot + 2, 1, Len(MATH_TOPICS) - 1)
        second == ((first + step - 1) % Len(MATH_TOPICS)) + 1
    IN  IF k = 1 THEN <<MATH_TOPICS[first]>>
        ELSE <<MATH_TOPICS[first], MATH_TOPICS[second]>>

\* mock_data.generate_struggling_assignments; times holds the draws of
\* random.randint(90, 150), topics those of random.sample
generate_struggling_assignments(times, topics) ==
    LET scores == <<65, 58, 52, 55, 48>>
        attempts_list == <<3, 4, 5, 4, 5>>
    IN  [i \in 1 .. 5 |->
            Assignment(scores[i], attempts_list[i], times[i], topics[i])]

\* mock_data.generate_moderate_assignments
generate_moderate_assignments(attempts, times, topics) ==
    LET scores == <<75, 72, 68, 70, 73>>
    IN  [i \in 1 .. 5 |-> Assignment(scores[i], attempts[i], times[i], topics[i])]

\* mock_data.generate_thriving_assignments
generate_thriving_assignments(times, topics) ==
    LET scores == <<88, 90, 92, 89, 94>>
    IN  [i \in 1 .. 5 |-> Assignment(scores[i], 1, times[i], topics[i])]

\* a student whose derived fields keep the values of the constructor call
create_student_Unscored(student_id, assignments, days_inactive) ==
    [id |-> StudentId(student_id),
     last_active |-> 24 * days_inactive,
     assignments |-> assignments,
     risk_score |-> 0,
     risk_level |-> "low",
     risk_reasons |-> <<>>,
     struggling_topics |-> <<>>]
\* mock_data.create_student.  Of a Student's fields the record keeps those a
\* handler's control flow or the risk engine reads; last_active is the age
\* of the timestamp, in hours, when the student is created.
create_student(student_id, assignments, days_inactive) ==
    LET student == [id |-> StudentId(student_id),
                    last_active |-> 24 * days_inactive,
                    assignments |-> assignments,
                    risk_score |-> 0,
                    risk_level |-> "low",
                    risk_reasons |-> <<>>,
                    struggling_topics |-> <<>>]
        scored == calculate_risk_score(student)
    IN  [student EXCEPT !.risk_score = scored.score,
                        !.risk_level = get_risk_level(scored.score),
                        !.risk_reasons = scored.reasons,
                        !.struggling_topics = analyze_struggling_topics(student)]

\* the student generate_mock_students creates n-th: six declining, six
\* struggling, twelve moderate, six thriving
mock_student(seed, n) ==
    LET Times(a, b) == [i \in 1 .. 5 |-> randint(seed, n, i, a, b)]
        attempts == [i \in 1 .. 5 |-> randint(seed, n, 5 + i, 1, 3)]
        topics == [i \in 1 .. 5 |-> sample(seed, n, 3 + i)]
        Days(a, b) == randint(seed, n, 0, a, b)
    IN  IF n <= 6
        THEN create_student(n, generate_declining_assignments(Times(45, 90)),
                            Days(3, 7))
        ELSE IF n <= 12
        THEN create_student(n, generate_struggling_assignments(Times(90, 150),
                                                               topics),
                            Days(0, 4))
        ELSE IF n <= 24
        THEN create_student(n, generate_moderate_assignments(attempts,
                                                             Times(50, 80),
                                                             topics),
                            Days(0, 3))
        ELSE create_student(n, generate_thriving_assignments(Times(30, 60),
                                                             topics),
                            Days(0, 2))

\* random.shuffle: of the orders it may leave, the rotations by the seed
shuffle(seed, students) ==
    [i \in 1 .. Len(students) |->
        students[((i - 1 + 7 * seed) % Len(students)) + 1]]

\* mock_data.generate_mock_students with the records whole
generate_students(seed) ==
    shuffle(seed, [n \in 1 .. ROSTER_SIZE |-> mock_student(seed, n)])

\* the state after main.startup_event
InitRoster ==
    /\ students_db \in { generate_students(seed) : seed \in Seeds }
    /\ \E api_key \in ApiKeys :
          IF Truthy(api_key)
          THEN /\ claude_service = ClaudeService(api_key, CONFIG_MAX_RETRIES,
                                                 CONFIG_INITIAL_RETRY_DELAY)
               /\ use_fallback = FALSE
          ELSE claude_service = NoService /\ use_fallback = TRUE
    /\ pc = "idle"
    /\ request = NoRequest
    /\ attempt = 0
    /\ last_error = NoError
    /\ delay = 0
    /\ outcome = Pending
    /\ used_fallback = FALSE
    /\ response = NoResponse
    /\ calls = 0
    /\ waits = 0
    /\ retryable_failures = 0
    /\ fallback_calls = 0
    /\ live_attempts = 0
    /\ tasks = NoTasks
    /\ running = 0
    /\ probe = NoProbe
    /\ probe_result = NoResult

\* main.get_students
get_students ==
    /\ pc = "idle"
    /\ response' = [kind |-> "Students", status |-> 200,
                    students |-> students_db]
    /\ pc' = "done"
    /\ UNCHANGED <<loop, server, client, probes, request, used_fallback,
                   fallback_calls, live_attempts>>

\* main.get_student
get_student(student_id) ==
    /\ pc = "idle"
    /\ IF Known(student_id)
       THEN LET i == CHOOSE j \in 1 .. Len(students_db) :
                        /\ students_db[j].id = student_id
                        /\ \A h \in 1 .. j - 1 : students_db[h].id # student_id
            IN  response' = [kind |-> "Student", status |-> 200,
                             student |-> students_db[i]]
       ELSE response' = HTTPException(404)
    /\ pc' = "done"
    /\ UNCHANGED <<loop, server, client, probes, request, used_fallback,
                   fallback_calls, live_attempts>>

\* the struggling topics of the students, in roster order
RECURSIVE StruggleList(_)
StruggleList(students) ==
    IF students = <<>> THEN <<>>
    ELSE Head(students).struggling_topics \o StruggleList(Tail(students))

\* the keys of topic_counts in insertion order
CountKeys(listed) ==
    LET firsts == {j \in 1 .. Len(listed) :
                      \A h \in 1 .. j - 1 : listed[h] # listed[j]}
        Nth(k) == CHOOSE j \in firsts :
                      Cardinality({h \in firsts : h < j}) = k - 1
    IN  [k \in 1 .. Cardinality(firsts) |-> listed[Nth(k)]]

\* sorted(items, key=lambda x: x[1], reverse=True): a stable sort, so of two
\* topics with the same count the one entered first stays first
RECURSIVE SortedByCount(_)
SortedByCount(items) ==
    IF items = <<>> THEN <<>>
    ELSE LET i == CHOOSE j \in 1 .. Len(items) :
                     /\ \A h \in 1 .. Len(items) : items[h].count <= items[j].count
                     /\ \A h \in 1 .. j - 1 : items[h].count < items[j].count
         IN  <<items[i]>>
             \o SortedByCount(SubSeq(items, 1, i - 1)
                              \o SubSeq(items, i + 1, Len(items)))

\* main.get_analytics; avg_risk_score, rounded to one decimal, is kept in
\* tenths (the mean of ROSTER_SIZE whole numbers is never half a tenth)
get_analytics ==
    /\ pc = "idle"
    /\ LET total == Len(students_db)
           Count(level) ==
               Cardinality({i \in 1 .. total : students_db[i].risk_level = level})
           listed == StruggleList(students_db)
           keys == CountKeys(listed)
           topic_counts ==
               [i \in 1 .. Len(keys) |->
                   [topic |-> keys[i],
                    count |-> Cardinality({j \in 1 .. Len(listed) :
                                              listed[j] = keys[i]})]]
           sorted == SortedByCount(topic_counts)
           risk_scores == [i \in 1 .. total |-> students_db[i].risk_score]
       IN  response' =
             [kind |-> "CourseAnalytics", status |-> 200,
              total_students |-> total,
              at_risk_count |-> Count("high") + Count("medium"),
              risk_breakdown |-> [high |-> Count("high"),
                                  medium |-> Count("medium"),
                                  low |-> Count("low")],
              top_struggle_topics |-> SubSeq(sorted, 1, Min(5, Len(sorted))),
              avg_risk_score |->
                  IF total > 0
                  THEN (20 * Sum(risk_scores) + total) \div (2 * total)
                  ELSE 0]
    /\ pc' = "done"
    /\ UNCHANGED <<loop, server, client, probes, request, used_fallback,
                   fallback_calls, live_attempts>>

\* the quiz requests made of the roster
RosterTopics == {LINEAR_EQUATIONS, <<"radicals">>}

NextRoster ==
    \/ get_students
    \/ \E student_id \in RequestStudentIds : get_student(student_id)
    \/ get_analytics
    \/ \E student_id \in RequestStudentIds, topic \in RosterTopics :
          generate_quiz(student_id, topic, 1)
    \/ Backoff
    \/ RemoteCall
    \/ generate_quiz_resume
    \/ NextRequest

SpecRoster == InitRoster /\ [][NextRoster]_vars
-----------------------------------------------------------------------------
(* Claims *)

Answered == pc = "done" /\ response.kind = "QuizResponse"

FallbackContent ==
    generate_fallback_questions(request.topic, request.num_questions)

C1_Served ==
    pc = "done" /\ Known(request.student_id) => response.kind = "QuizResponse"

C1_NotReraised ==
    pc = "done" /\ outcome.do = "raise"
        => /\ response.kind = "QuizResponse"
           /\ fallback_calls = 1
           /\ response.questions = FallbackContent

\* C1: every quiz request for a known student eventually completes with a
\* QuizResponse and never with an error, whatever the remote service answers
\* on each attempt; an error raised by generate_quiz_questions leads to
\* fallback content and is not re-raised.
C1_QuizRequestCompletes ==
    /\ [](C1_Served /\ C1_NotReraised)
    /\ (request.active ~> pc = "done")

C1_Witness ==
    /\ Answered
    /\ Known(request.student_id)
    /\ outcome.do = "raise"
    /\ outcome.exc.original_error.cls = "IndexError"
    /\ response.questions = FallbackContent
    /\ request.num_questions = 3

AllAttemptsRetryable == pc = "client_done" /\ retryable_failures = calls

\* C2: when every attempt fails with a retryable error the client makes
\* exactly max_retries+1 remote calls and then fails with ClaudeAPIError;
\* whatever the answers, it never makes more than max_retries+1 calls.
C2_RetryBudget ==
    /\ calls <= claude_service.max_retries + 1
    /\ AllAttemptsRetryable
          => /\ calls = claude_service.max_retries + 1
             /\ outcome.do = "raise"
             /\ outcome.exc.cls = "ClaudeAPIError"

C2_Witness ==
    /\ AllAttemptsRetryable
    /\ claude_service.max_retries >= 2
    /\ calls = claude_service.max_retries + 1
    /\ last_error.status_code = 503
    /\ outcome.do = "raise"

\* the errors a malformed response body raises: text that is not JSON, and
\* JSON that does not match the question schema
MalformedBody(e) == e.cls \in {"JSONDecodeError", "ValidationError", "TypeError"}

\* C3: a malformed response body on any attempt makes generate_quiz_questions
\* fail at once with ClaudeAPIError: the call that received it is the last
\* one, even when retry budget remains.
C3_MalformedIsFatal ==
    MalformedBody(last_error)
        => /\ pc = "client_done"
           /\ outcome.do = "raise"
           /\ outcome.exc.cls = "ClaudeAPIError"
           /\ outcome.exc.original_error = last_error
           /\ calls = attempt + 1

C3_Witness ==
    /\ MalformedBody(last_error)
    /\ pc = "client_done"
    /\ attempt >= 1
    /\ attempt < claude_service.max_retries
    /\ outcome.do = "raise"

\* no ClaudeService instance exists: the server runs in fallback-only mode
FallbackOnly == pc # "boot" /\ claude_service.raised # None

\* C4 as stated: in fallback-only mode every quiz request for a known student
\* returns an identifier ending in -fallback and as many questions as were
\* requested, and no remote call is made.
C4_FallbackOnlyAsStated ==
    FallbackOnly
        => /\ calls = 0
           /\ pc = "done" /\ Known(request.student_id)
                 => /\ response.kind = "QuizResponse"
                    /\ EndsWith(response.quiz_id, <<"-", "fallback">>)
                    /\ Len(response.questions) = request.num_questions

\* C4 (amended): in fallback-only mode every quiz request for a known student
\* returns an identifier ending in -fallback, and no remote call is made; the
\* number of questions equals the requested count when that count is >= 0,
\* and is zero when it is negative.
C4_FallbackOnly ==
    FallbackOnly
        => /\ calls = 0
           /\ pc = "done" /\ Known(request.student_id)
                 => /\ response.kind = "QuizResponse"
                    /\ EndsWith(response.quiz_id, <<"-", "fallback">>)
                    /\ Len(response.questions) =
                          IF request.num_questions >= 0
                          THEN request.num_questions ELSE 0

C4_Witness ==
    /\ FallbackOnly
    /\ Answered
    /\ request.num_questions = 3
    /\ Len(response.questions) = 3
    /\ EndsWith(response.quiz_id, <<"-", "fallback">>)

\* C5: the returned quiz_id is quiz-{studentId}-{topic} for live questions
\* and that string with -fallback appended for fallback questions, so that it
\* ends in -fallback exactly when fallback content was used.
C5_IdEncodesFallback ==
    Answered
        => /\ response.quiz_id =
                 <<"quiz", "-">> \o request.student_id \o <<"-">>
                     \o request.topic
                     \o (IF fallback_calls > 0 THEN <<"-", "fallback">>
                         ELSE <<>>)
           /\ EndsWith(response.quiz_id, <<"-", "fallback">>)
                 <=> fallback_calls > 0

FallbackApplied ==
    probe.fn = "generate_fallback_questions" /\ probe_result.done

\* C6: generate_fallback_questions(topic, n) returns exactly n questions, for
\* every topic, known or not, and every n >= 0.
C6_FallbackCount ==
    FallbackApplied /\ probe.num_questions >= 0
        => /\ Len(probe_result.value) = probe.num_questions
           /\ DOMAIN probe_result.value = 1 .. probe.num_questions

C6_Witness ==
    /\ FallbackApplied
    /\ probe.topic = QUADRATIC_EQUATIONS
    /\ probe.num_questions = 3
    /\ Len(probe_result.value) = 3

\* C7: every question generate_fallback_questions(topic, n) returns carries
\* the requested topic as its topic tag, also when the topic has no pool of
\* its own.
C7_FallbackTopicTag ==
    FallbackApplied
        => \A i \in DOMAIN probe_result.value :
              probe_result.value[i].topic = probe.topic

C7_Witness ==
    /\ FallbackApplied
    /\ probe.topic = <<"radicals">>
    /\ probe.num_questions = 2
    /\ probe_result.value[2].topic = <<"radicals">>

RetryApplied == probe.fn = "_should_retry" /\ probe_result.done

\* C8: _should_retry(error, attempt) is true exactly when attempt <
\* max_retries and the error is a connection failure, a rate-limit error or a
\* status-coded error with a code in {429,500,502,503,504,529}.
C8_ShouldRetry ==
    RetryApplied
        => probe_result.value =
              (/\ probe.attempt_index < probe.max_retries
               /\ \/ probe.error.cls = "APIConnectionError"
                  \/ probe.error.cls = "RateLimitError"
                  \/ /\ probe.error.cls = "APIStatusError"
                     /\ probe.error.status_code
                           \in {429, 500, 502, 503, 504, 529})

C8_Witness ==
    /\ RetryApplied
    /\ probe.error.cls = "APIStatusError"
    /\ probe.error.status_code = 529
    /\ probe.attempt_index = probe.max_retries - 1
    /\ probe_result.value = TRUE

BackoffApplied == probe.fn = "_calculate_backoff_delay" /\ probe_result.done

NextDelay ==
    _calculate_backoff_delay(probe.initial_retry_delay,
                             probe.attempt_index + 1, 0)

NoJitter == BackoffApplied /\ probe.draw = 0 /\ probe.initial_retry_delay > 0

ConstructApplied == pc = "probe" /\ probe.fn = "ClaudeService" /\ probe_result.done

\* C11: constructing ClaudeService with an absent or empty credential fails
\* at construction with a ClaudeAPIError: the constructor yields an instance
\* only for a non-empty credential, so no instance without a credential
\* exists and the failure is never left to generate_quiz_questions.
C11_NoCredentialNoInstance ==
    ConstructApplied
        => IF Truthy(probe.api_key)
           THEN probe_result.value.raised = None
           ELSE probe_result.value.raised = "ClaudeAPIError"

C11_Witness ==
    /\ ConstructApplied
    /\ probe.api_key = Str(<<>>)
    /\ probe_result.value.raised = "ClaudeAPIError"

RiskApplied ==
    pc = "probe" /\ probe.fn = "calculate_risk_score" /\ probe_result.done

\* the tiers of all five clauses at their maximum
AllMaximal ==
    /\ probe_result.value.reasons =
          <<"declining_grades", "grade_below_60", "multiple_attempts_5plus",
            "inactive_7plus_days", "excessive_time">>

\* C12: calculate_risk_score returns a score in [0,100] for every student,
\* also when the maximal tier of every clause (trend, grade, attempts,
\* inactivity, excess time) fires at once.
C12_ScoreInRange ==
    RiskApplied => probe_result.value.score \in 0 .. 100

C12_Witness == RiskApplied /\ AllMaximal /\ probe_result.value.score = 85

LevelApplied == pc = "probe" /\ probe.fn = "get_risk_level" /\ probe_result.done

\* C13: for every integer score s, get_risk_level(s) is HIGH iff s >= 41,
\* MEDIUM iff 21 <= s <= 40, and LOW iff s <= 20.
C13_LevelThresholds ==
    LevelApplied
        => /\ probe_result.value = "high" <=> probe.risk_score >= 41
           /\ probe_result.value = "medium"
                <=> (21 <= probe.risk_score /\ probe.risk_score <= 40)
           /\ probe_result.value = "low" <=> probe.risk_score <= 20

C13_Witness ==
    LevelApplied /\ probe.risk_score = 40 /\ probe_result.value = "medium"

Has(reasons, tag) == \E i \in 1 .. Len(reasons) : reasons[i] = tag

\* among the most recent at most 4 scores each is less than or equal to the
\* one before it
RecentNonIncreasing(assignments) ==
    LET n == Len(assignments)
        first == IF n > 4 THEN n - 3 ELSE 1
    IN  \A i \in first + 1 .. n :
            assignments[i].score <= assignments[i - 1].score

TopicsApplied ==
    pc = "probe" /\ probe.fn = "analyze_struggling_topics" /\ probe_result.done

Lists(assignment, topic) ==
    \E k \in 1 .. Len(assignment.topics) : assignment.topics[k] = topic

\* the assignments (by position) that list the topic
Listing(assignments, topic) ==
    { i \in 1 .. Len(assignments) : Lists(assignments[i], topic) }

RECURSIVE ScoreSum(_, _)
ScoreSum(assignments, indices) ==
    IF indices = {} THEN 0
    ELSE LET i == CHOOSE j \in indices : TRUE
         IN  assignments[i].score + ScoreSum(assignments, indices \ {i})

\* the mean of the scores of the assignments listing the topic is below 70
MeanBelow70(assignments, topic) ==
    LET listing == Listing(assignments, topic)
    IN  listing # {}
        /\ ScoreSum(assignments, listing) < 70 * Cardinality(listing)

\* where the topic is first listed: the assignment, then the place in its list
FirstListed(assignments, topic) ==
    LET i == CHOOSE j \in Listing(assignments, topic) :
                 \A l \in Listing(assignments, topic) : j <= l
        k == CHOOSE p \in 1 .. Len(assignments[i].topics) :
                 /\ assignments[i].topics[p] = topic
                 /\ \A q \in 1 .. p - 1 : assignments[i].topics[q] # topic
    IN  <<i, k>>

Earlier(a, b) == a[1] < b[1] \/ (a[1] = b[1] /\ a[2] < b[2])

\* C15: analyze_struggling_topics returns a topic iff the arithmetic mean of
\* the scores of all assignments listing that topic is strictly below 70 (a
\* mean of exactly 70 is excluded); an assignment contributes its score to
\* every topic it lists, and each qualifying topic appears exactly once, in
\* order of first occurrence.
C15_StrugglingTopics ==
    TopicsApplied
        => LET assignments == probe.student.assignments
               result == probe_result.value
           IN  /\ \A topic \in {LINEAR_EQUATIONS, <<"radicals">>, FACTORING} :
                     (\E i \in 1 .. Len(result) : result[i] = topic)
                         <=> MeanBelow70(assignments, topic)
               /\ \A i, j \in 1 .. Len(result) :
                     i < j => /\ result[i] # result[j]
                              /\ Earlier(FirstListed(assignments, result[i]),
                                         FirstListed(assignments, result[j]))

\* one topic with a mean of exactly 70 left out, the other returned
C15_Witness ==
    /\ TopicsApplied
    /\ Listing(probe.student.assignments, LINEAR_EQUATIONS) = {1, 2}
    /\ probe.student.assignments[1].score = 60
    /\ probe.student.assignments[2].score = 80
    /\ probe_result.value = << <<"radicals">> >>

\* a second witness of the order: the topic listed second in the alphabet
\* comes first
C15_OrderWitness ==
    /\ TopicsApplied
    /\ probe_result.value = << <<"radicals">>, LINEAR_EQUATIONS >>

\* the scenario: scores 85, 78, 72, 65, 58 and last active 8 days ago
DecliningScenario ==
    /\ RiskApplied
    /\ Len(probe.student.assignments) = 5
    /\ [i \in 1 .. 5 |-> probe.student.assignments[i].score]
          = <<85, 78, 72, 65, 58>>
    /\ DaysInactive(probe.student) = 8

ScenarioReasons ==
    /\ Has(probe_result.value.reasons, "declining_grades")
    /\ Has(probe_result.value.reasons, "grade_below_60")
    /\ Has(probe_result.value.reasons, "inactive_7plus_days")

\* C16 as stated: a student with assignment scores [85,78,72,65,58] and last
\* active 8 days ago gets reasons that include declining_grades,
\* grade_below_60 and inactive_7plus_days, a risk score of 60, and level HIGH.
C16_ScenarioAsStated ==
    DecliningScenario
        => /\ ScenarioReasons
           /\ probe_result.value.score = 60
           /\ get_risk_level(probe_result.value.score) = "high"

\* C16 (amended): such a student gets the three reasons and level HIGH; the
\* risk score is 60 plus the points of the attempts and time clauses for the
\* latest assignment: 60 when it has fewer than 3 attempts and at most 120
\* minutes, and 70 for the assignments generate_declining_assignments builds
\* (4 attempts on the latest, at most 90 minutes).
C16_Scenario ==
    DecliningScenario
        => LET latest == probe.student.assignments[5]
               score == probe_result.value.score
           IN  /\ ScenarioReasons
               /\ get_risk_level(score) = "high"
               /\ score = 60
                    + (IF latest.attempts >= 5 THEN 15
                       ELSE IF latest.attempts >= 3 THEN 10 ELSE 0)
                    + (IF latest.time_spent_minutes > 120 THEN 10 ELSE 0)
               /\ latest.attempts < 3 /\ latest.time_spent_minutes <= 120
                    => score = 60
               /\ probe.student \in DecliningStudents => score = 70

C16_Witness ==
    /\ DecliningScenario
    /\ probe.student \in DecliningStudents
    /\ probe_result.value.score = 70
    /\ Has(probe_result.value.reasons, "multiple_attempts_3plus")

WellFormed(q) ==
    /\ DOMAIN q.options = {"A", "B", "C", "D"}
    /\ q.correct \in DOMAIN q.options

\* C17: every QuizQuestion in every returned quiz result, live or fallback,
\* has exactly four options (labels A-D) and a correct label that is one of
\* the keys of its options; a live response violating this is rejected
\* rather than returned.
C17_QuestionsWellFormed ==
    Answered
        => \A i \in 1 .. Len(response.questions) :
               WellFormed(response.questions[i])

LiveSucceeded == live_attempts = 1 /\ outcome.do = "return"

\* C20: per request generate_quiz_questions is invoked at most once, the
\* fallback generator is invoked exactly once iff live generation did not
\* succeed (it failed or is not configured) and never after a live success,
\* and the returned questions are entirely the live sequence or entirely the
\* fallback sequence.
C20_LiveThenFallback ==
    /\ live_attempts <= 1
    /\ fallback_calls <= 1
    /\ pc \in {"call", "backoff", "client_done"}
          => live_attempts = 1 /\ fallback_calls = 0
    /\ fallback_calls = 1 => pc = "done" /\ ~LiveSucceeded
    /\ Answered
          => /\ fallback_calls = 1 <=> ~LiveSucceeded
             /\ live_attempts = 0 <=> (use_fallback \/ claude_service = NoService)
             /\ IF LiveSucceeded
                THEN response.questions = outcome.questions /\ ~used_fallback
                ELSE response.questions = FallbackContent /\ used_fallback

\* live generation failed after retries and the fallback answered
C20_Witness ==
    /\ Answered
    /\ live_attempts = 1
    /\ outcome.do = "raise"
    /\ calls > 1
    /\ fallback_calls = 1
    /\ response.questions = FallbackContent
    /\ Len(response.questions) > 0

\* at most one task is between its handler's entry and its return
OneAtATime ==
    Cardinality({ t \in TaskIds :
                    tasks[t].pc \in {"call", "in_flight", "backoff",
                                     "client_done"} }) <= 1

\* C18: while one quiz request waits in the retry loop's backoff delay,
\* unrelated concurrent requests are not blocked: another request that has
\* arrived can start (and so make progress and complete) before the waiting
\* request's delay has elapsed.
C18_BackoffDoesNotBlock ==
    \A t, u \in TaskIds :
        t # u /\ tasks[t].pc = "backoff" /\ tasks[u].pc = "arrived"
            => ENABLED task_generate_quiz(u)

\* C19: if the request is cancelled while generate_quiz_questions is in a
\* backoff wait or an in-flight remote call, the wait or call is abandoned:
\* after the cancellation no further remote call is made for that request
\* and no QuizResponse is produced for it.
C19_CancelledIsAbandoned ==
    \A t \in TaskIds :
        tasks[t].cancelled
            => /\ tasks[t].calls_after_cancel = 0
               /\ tasks[t].response.kind # "QuizResponse"

\* a failure outside the retryable categories: a status code outside
\* {429,500,502,503,504,529}, or an exception that is no connection, rate
\* limit or status error
Fatal(e) == e # NoError /\ ~RetryableCategory(e)

ClientFailed ==
    pc = "client_done" /\ outcome.do = "raise"
        /\ outcome.exc.cls = "ClaudeAPIError"

\* C21: a fatal failure ends the retry loop at once: when an attempt fails
\* with a status code outside {429,500,502,503,504,529} or with an unexpected
\* exception, ClaudeAPIError is raised and the failed call is the last one,
\* whatever retry budget remains.
C21_FatalEndsLoop ==
    Fatal(last_error)
        => /\ ClientFailed
           /\ outcome.exc.original_error = last_error
           /\ calls = attempt + 1
           /\ waits = attempt

C21_Witness ==
    /\ ClientFailed
    /\ last_error.cls = "APIStatusError"
    /\ last_error.status_code = 403
    /\ attempt = 1
    /\ claude_service.max_retries = 3
    /\ calls = 2

ClientReturned == pc = "client_done" /\ outcome.do = "return"

\* C22: if the first k attempts (0 <= k <= max_retries) all fail with
\* retryable errors and attempt k+1 returns a valid response, the call
\* returns that response's questions after exactly k+1 remote calls, raises
\* no error and makes no remote call after the successful one.
C22_SuccessAfterRetries ==
    /\ ClientReturned
          => /\ calls = retryable_failures + 1
             /\ calls = attempt + 1
             /\ calls <= claude_service.max_retries + 1
             /\ outcome.exc = NoError
             /\ \E reply \in Replies :
                   /\ reply.raised = NoError
                   /\ ParseMessage(reply.message) = Returned(outcome.questions)
    /\ pc = "client_done" => ~ENABLED RemoteCall

C22_Witness ==
    /\ ClientReturned
    /\ retryable_failures = 3
    /\ calls = 4
    /\ claude_service.max_retries = 3
    /\ Len(outcome.questions) = 2

\* C23: when generate_quiz_questions finally fails because of a rate-limit
\* error, also when the retry budget is exhausted after repeated rate
\* limits, the raised ClaudeAPIError carries the retry-after hint of that
\* error whenever it has one; failures of every other category carry no
\* retry-after hint.
C23_RetryAfterHint ==
    ClientFailed
        => /\ outcome.exc.original_error = last_error
           /\ outcome.exc.retry_after =
                 IF last_error.cls = "RateLimitError"
                 THEN last_error.retry_after ELSE None

\* the budget of three retries is used up by retryable failures, the last a
\* rate limit with a hint
C23_Witness ==
    /\ ClientFailed
    /\ claude_service.max_retries = 3
    /\ calls = 4
    /\ retryable_failures = 4
    /\ last_error.cls = "RateLimitError"
    /\ last_error.retry_after = "30"
    /\ outcome.exc.retry_after = "30"

\* the message the category table gives a status-coded error
TableMessages(status_code) ==
    IF status_code \in {429, 500, 502, 503, 504, 529}
    THEN {"high_demand", "internal_error", "temporarily_overloaded"}
    ELSE IF status_code \in {401, 403}
    THEN {"authentication_failed", "access_denied"}
    ELSE IF status_code = 404 THEN {"model_not_available"}
    ELSE {"error_with_code"}

\* C24: when generation finally fails on a status-coded error, the message
\* is chosen by the category table: every code in {429,500,502,503,504,529}
\* yields a service-overloaded or internal-error message, 401/403 a
\* credential or permission message, 404 a model-unavailable message, and
\* only codes outside all of these the generic error-with-code message.
C24_MessageTable ==
    ClientFailed /\ last_error.cls = "APIStatusError"
        => outcome.exc.message \in TableMessages(last_error.status_code)

\* C25: a response that fails parsing, as invalid JSON or as valid JSON that
\* does not match the question schema, produces a ClaudeAPIError with the
\* invalid-response message, not the generic unexpected-error message.
C25_InvalidResponseMessage ==
    ClientFailed /\ MalformedBody(last_error)
        => outcome.exc.message = "invalid_response"

\* the delay is base + jitter capped at 60 s, for a jitter in [0, 0.1 * base)
\* (a base of 0 leaves only the jitter 0)
DelayOf(base, d) ==
    \E jitter \in 0 .. base :
        /\ IF base > 0 THEN 10 * jitter < base ELSE jitter = 0
        /\ d = Min(base + jitter, 60 * 1000)

\* C26: in generate_quiz_questions no backoff wait precedes the first remote
\* call and exactly one precedes each retry, so calls and waits alternate
\* call, wait, call, ...; the wait before retry number k >= 1 has base delay
\* initial_retry_delay * 2^(k-1) plus jitter in [0, 0.1 * base), capped at
\* 60 s.
C26_CallsAndWaitsAlternate ==
    pc \in {"call", "backoff", "client_done"}
        => /\ pc = "call" => waits = calls /\ waits = attempt
           /\ pc = "backoff" => waits + 1 = calls /\ calls = attempt
           /\ pc = "client_done" => waits + 1 = calls
           /\ waits >= 1
                => DelayOf(claude_service.initial_retry_delay * Pow2(waits - 1),
                           delay)

\* the third retry of a client with the default initial delay is about to
\* call after a wait of 4 s plus jitter
C26_Witness ==
    /\ pc = "call"
    /\ claude_service.initial_retry_delay = 1000
    /\ calls = 3
    /\ waits = 3
    /\ delay = 4200

\* the pool the generator builds for the topic: the topic's own, or the
\* linear_equations pool when the topic has none
PoolOf(topic) ==
    LET pools == fallback_questions(topic)
    IN  IF topic = QUADRATIC_EQUATIONS THEN pools.quadratic_equations
        ELSE IF topic = POLYNOMIALS THEN pools.polynomials
        ELSE IF topic = FACTORING THEN pools.factoring
        ELSE pools.linear_equations

\* C27: generate_fallback_questions(topic, n) returns, at each position i in
\* [0, n), the entry pool[i mod len(pool)] of the topic's pool, an unknown
\* topic using the linear_equations pool; more questions than the pool holds
\* repeat its entries in order, and a second call with the same arguments
\* returns an equal sequence.
C27_FallbackCycles ==
    FallbackApplied
        => LET pool == PoolOf(probe.topic)
               again == generate_fallback_questions(probe.topic,
                                                    probe.num_questions)
           IN  /\ \A i \in 0 .. probe.num_questions - 1 :
                     probe_result.value[i + 1] = pool[(i % Len(pool)) + 1]
               /\ Len(probe_result.value) =
                     IF probe.num_questions > 0 THEN probe.num_questions ELSE 0
               /\ again = probe_result.value

\* an unknown topic, more questions than the default pool holds
C27_Witness ==
    /\ FallbackApplied
    /\ probe.topic = <<"systems", "_", "of", "_", "equations">>
    /\ probe.num_questions = 3
    /\ probe_result.value[1].correct = "B"
    /\ probe_result.value[2].correct = "C"
    /\ probe_result.value[3] = probe_result.value[1]

\* the points of a reason tag
TagPoints(tag) ==
    CASE tag = "declining_grades" -> 20
      [] tag = "grade_below_60" -> 25
      [] tag = "grade_below_70" -> 15
      [] tag = "multiple_attempts_5plus" -> 15
      [] tag = "multiple_attempts_3plus" -> 10
      [] tag = "inactive_7plus_days" -> 15
      [] tag = "inactive_5plus_days" -> 10
      [] tag = "excessive_time" -> 10

RECURSIVE ReasonPoints(_)
ReasonPoints(reasons) ==
    IF reasons = <<>> THEN 0
    ELSE TagPoints(Head(reasons)) + ReasonPoints(Tail(reasons))

\* C28: for a student with at least one assignment the score equals
\* min(100, sum of the points of the tags in the returned reasons); the
\* reasons never hold both tags of a tiered pair (grade, attempts,
\* inactivity), and the grade, attempts and excess-time clauses look only at
\* the latest assignment.
C28_ScoreIsSumOfReasons ==
    RiskApplied /\ probe.student.assignments # <<>>
        => LET reasons == probe_result.value.reasons
               latest == probe.student.assignments[
                             Len(probe.student.assignments)]
           IN  /\ probe_result.value.score = Min(100, ReasonPoints(reasons))
               /\ \A i, j \in 1 .. Len(reasons) :
                     i # j => reasons[i] # reasons[j]
               /\ ~(Has(reasons, "grade_below_60")
                      /\ Has(reasons, "grade_below_70"))
               /\ ~(Has(reasons, "multiple_attempts_5plus")
                      /\ Has(reasons, "multiple_attempts_3plus"))
               /\ ~(Has(reasons, "inactive_7plus_days")
                      /\ Has(reasons, "inactive_5plus_days"))
               /\ Has(reasons, "grade_below_60") <=> latest.score < 60
               /\ Has(reasons, "grade_below_70")
                     <=> (60 <= latest.score /\ latest.score < 70)
               /\ Has(reasons, "multiple_attempts_5plus")
                     <=> latest.attempts >= 5
               /\ Has(reasons, "multiple_attempts_3plus")
                     <=> (3 <= latest.attempts /\ latest.attempts < 5)
               /\ Has(reasons, "excessive_time")
                     <=> latest.time_spent_minutes > 120

\* earlier assignments with low scores, many attempts and long times, the
\* latest one with none of these: no points
C28_Witness ==
    /\ RiskApplied
    /\ Len(probe.student.assignments) = 2
    /\ probe.student.assignments[1].attempts = 5
    /\ probe.student.assignments[1].time_spent_minutes = 150
    /\ probe.student.assignments[1].score = 55
    /\ probe.student.assignments[2].score = 70
    /\ probe_result.value = [score |-> 0, reasons |-> <<>>]

\* C29: for a student with no assignments calculate_risk_score returns score
\* 0 and an empty reasons list whatever the other fields, also when the
\* student has been inactive for more than 7 days.
C29_NoAssignments ==
    RiskApplied /\ probe.student.assignments = <<>>
        => probe_result.value = [score |-> 0, reasons |-> <<>>]

C29_Witness ==
    /\ RiskApplied
    /\ probe.student.assignments = <<>>
    /\ DaysInactive(probe.student) = 8
    /\ probe_result.value.score = 0
    /\ probe_result.value.reasons = <<>>

\* the derived fields of a roster student are what the risk engine computes
\* from the student's own record
DerivedFieldsHold(student) ==
    /\ student.risk_score \in 0 .. 100
    /\ student.risk_level = get_risk_level(student.risk_score)
    /\ calculate_risk_score(student).score = student.risk_score
    /\ calculate_risk_score(student).reasons = student.risk_reasons
    /\ analyze_struggling_topics(student) = student.struggling_topics

RosterConsistent ==
    \A i \in 1 .. Len(students_db) : DerivedFieldsHold(students_db[i])

=============================================================================
